---------------------------- MODULE Spec2Model ----------------------------
(***************************************************************************)
(* TtlCache (packages/ttl-cache): an in-process keyed cache with TTL, LRU  *)
(* eviction, stale-while-revalidate and request deduplication.             *)
(*                                                                         *)
(* The cache is modelled on a heap of CacheEntry objects: `ent` maps an    *)
(* object id to the entry's fields, `map` is the JS Map (key -> entry, in  *)
(* insertion order), `head`/`tail` are the DoublyLinkedList fields and     *)
(* `inflight` is the Map of in-flight loader promises.  A loader execution *)
(* (one call of executeLoader) that has not settled is a record of         *)
(* `loaders`; the getOrSet calls that await one are the bag `calls`; what  *)
(* the latest step delivered to awaiting callers is `settled`.             *)
(*                                                                         *)
(* Lower-case operators (set, get, removeEntry, ...) are the methods of    *)
(* the source as functions from a store record to a store record; the      *)
(* capitalised actions run one method to completion, the way one           *)
(* synchronous stretch of JavaScript runs.  A promise settlement and the   *)
(* reactions it schedules (the continuation of executeLoader, the          *)
(* `finally` of getOrSet, the handlers of withAbort) run in the microtask  *)
(* queue before any other job and are one action.                          *)
(*                                                                         *)
(* Spec is a cache of one key without capacity bound; SpecLru is a cache   *)
(* of three keys with and without a bound; SpecFair adds the assumption    *)
(* that every loader execution settles.                                    *)
(***************************************************************************)
EXTENDS Integers, Sequences, FiniteSets, Bags, TLC

(* ------------------------------ bounds -------------------------------- *)
NKeys == 1
MaxVal == 2
MaxTime == 2
NExtra == 1
MaxLoaders == 2
MaxCalls == 2
MaxStat == 2
NLruKeys == 3
MaxSizeOpt == 2
MaxLruTime == 1
MaxLruLoaders == 1
MaxLruStat == 1

(* --------------------------- program constants ------------------------ *)
DEFAULT_TTL_MS == 30000
Undefined == -1

Keys == 1..NKeys
Values == 1..MaxVal
Objs == 1..(NKeys + NExtra)
LoaderIds == 1..MaxLoaders
TtlOpts == {Undefined, 1}
\* The options objects getOrSet is called with.
GetOrSetOpts == {[ttlMs |-> Undefined, swrMs |-> Undefined],
                 [ttlMs |-> 1, swrMs |-> 1]}
Signals == {"none", "live", "aborted"}

VARIABLES
  now,        \* Date.now()
  ent,        \* heap of CacheEntry objects: id -> fields
  map,        \* TtlCache.map: sequence of [k, e] in insertion order
  head,       \* DoublyLinkedList.head (0 = null)
  tail,       \* DoublyLinkedList.tail (0 = null)
  inflight,   \* TtlCache.inflight: key -> loader id (0 = no promise)
  stats,      \* TtlCache.stats
  maxSize,    \* TtlCache.maxSize (Undefined = no bound)
  defaultTtlMs, \* TtlCache.defaultTtlMs
  loaders,    \* loader executions that have not settled: id -> record
  calls,      \* bag of the getOrSet calls awaiting a loader execution
  settled     \* outcomes the latest step delivered to awaiting calls

vars == <<now, ent, map, head, tail, inflight, stats, maxSize, defaultTtlMs,
          loaders, calls, settled>>

(* ------------------------------ CacheEntry ---------------------------- *)
Blank == [key |-> 0, value |-> 0, expiresAt |-> 0, staleUntil |-> 0,
          prev |-> 0, next |-> 0]

CacheEntry(key, value, expiresAt, staleUntil) ==
  [key |-> key, value |-> value, expiresAt |-> expiresAt,
   staleUntil |-> staleUntil, prev |-> 0, next |-> 0]

isFresh(e, t) == t < e.expiresAt

isStale(e, t) == e.expiresAt <= t /\ t < e.staleUntil

isExpired(e, t) == t >= e.staleUntil

(* ------------------------------- JS Map ------------------------------- *)
MapHas(m, k) == \E i \in 1..Len(m) : m[i].k = k

MapGet(m, k) ==
  IF MapHas(m, k) THEN m[CHOOSE i \in 1..Len(m) : m[i].k = k].e ELSE 0

MapSet(m, k, e) ==
  IF MapHas(m, k)
  THEN [i \in 1..Len(m) |-> IF m[i].k = k THEN [k |-> k, e |-> e] ELSE m[i]]
  ELSE Append(m, [k |-> k, e |-> e])

MapDeleteP(r, k) == r.k # k

MapDelete(m, k) ==
  LET keep(r) == MapDeleteP(r, k) IN SelectSeq(m, keep)

MapKeys(m) == {m[i].k : i \in 1..Len(m)}

(* --------------------------- DoublyLinkedList ------------------------- *)
addToFront(s, e) ==
  LET e1 == [s.ent EXCEPT ![e].prev = 0, ![e].next = s.head]
      e2 == IF s.head # 0 THEN [e1 EXCEPT ![s.head].prev = e] ELSE e1
  IN [s EXCEPT !.ent = e2, !.head = e,
               !.tail = IF s.tail = 0 THEN e ELSE s.tail]

\* Variant: remove relinks the predecessor's side only.
removeOneSided(s, e) ==
  LET s1 == IF s.ent[e].prev # 0
            THEN [s EXCEPT !.ent[s.ent[e].prev].next = s.ent[e].next]
            ELSE [s EXCEPT !.head = s.ent[e].next]
  IN [s1 EXCEPT !.ent[e].prev = 0, !.ent[e].next = 0]

remove(s, e) ==
  LET s1 == IF s.ent[e].prev # 0
            THEN [s EXCEPT !.ent[s.ent[e].prev].next = s.ent[e].next]
            ELSE [s EXCEPT !.head = s.ent[e].next]
      s2 == IF s1.ent[e].next # 0
            THEN [s1 EXCEPT !.ent[s1.ent[e].next].prev = s1.ent[e].prev]
            ELSE [s1 EXCEPT !.tail = s1.ent[e].prev]
  IN [s2 EXCEPT !.ent[e].prev = 0, !.ent[e].next = 0]

\* Variant: a touch that does not promote the entry.
moveToFrontNot(s, e) == s

moveToFront(s, e) == IF e = s.head THEN s ELSE addToFront(remove(s, e), e)

removeTail(s) == IF s.tail = 0 THEN s ELSE remove(s, s.tail)

listClear(s) == [s EXCEPT !.head = 0, !.tail = 0]

(* -------------------------- heap bookkeeping -------------------------- *)
\* The objects the program still holds a reference to: those of the map and
\* of the list, closed under prev/next.
RECURSIVE Reach(_, _)
Reach(s, S) ==
  LET T == (S \cup {s.ent[o].prev : o \in S} \cup {s.ent[o].next : o \in S})
             \ {0}
  IN IF T = S THEN S ELSE Reach(s, T)

Roots(s) == ({s.map[i].e : i \in 1..Len(s.map)} \cup {s.head, s.tail}) \ {0}

Live(s) == Reach(s, Roots(s))

\* `new CacheEntry(...)`: a fresh object.
Free(s) == DOMAIN s.ent \ Live(s)

\* 0 when the model holds no further object (Fits then refuses the step).
NewObj(s, k) ==
  IF k \in Free(s) THEN k
  ELSE IF Free(s) = {} THEN 0
  ELSE CHOOSE o \in Free(s) : \A p \in Free(s) : o <= p

\* Unreferenced objects are forgotten.
Collect(s) ==
  LET live == Live(s) IN
  [s EXCEPT !.ent = [o \in DOMAIN s.ent |->
                       IF o \in live THEN s.ent[o] ELSE Blank]]

(* ------------------------------ TtlCache ------------------------------ *)
\* The cache and its callers as one record; `evicts` collects the onEvict
\* invocations of the operation that runs on it.
Store == [ent |-> ent, map |-> map, head |-> head, tail |-> tail,
          stats |-> stats, inflight |-> inflight, loaders |-> loaders,
          calls |-> calls, settled |-> {}, evicts |-> <<>>]

Commit(s) ==
  \E c \in {Collect(s)} :
  /\ ent' = c.ent
  /\ map' = c.map
  /\ head' = c.head
  /\ tail' = c.tail
  /\ stats' = c.stats
  /\ inflight' = c.inflight
  /\ loaders' = c.loaders
  /\ calls' = c.calls
  /\ settled' = c.settled

size(s) == Len(s.map)

onEvict(s, key, value, reason) ==
  [s EXCEPT !.evicts = Append(@, <<key, value, reason>>)]

\* Variant: a removal that is not reported to onEvict.
removeEntryUnreported(s, e, reason) ==
  LET s1 == remove(s, e)
      s2 == [s1 EXCEPT !.map = MapDelete(@, s.ent[e].key)]
  IN IF reason = "expired" \/ reason = "evicted"
     THEN [s2 EXCEPT !.stats.evictions = @ + 1] ELSE s2

removeEntry(s, e, reason) ==
  LET s1 == remove(s, e)
      s2 == [s1 EXCEPT !.map = MapDelete(@, s.ent[e].key)]
      s3 == IF reason = "expired" \/ reason = "evicted"
            THEN [s2 EXCEPT !.stats.evictions = @ + 1] ELSE s2
  IN onEvict(s3, s.ent[e].key, s.ent[e].value, reason)

\* Variant: the bound is never enforced.
enforceNever(s) == s

RECURSIVE enforceMaxSize(_)
enforceMaxSize(s) ==
  IF maxSize = Undefined THEN s
  ELSE IF size(s) > maxSize /\ s.tail # 0
       THEN LET evicted == s.tail
                s1 == removeTail(s)
                s2 == [s1 EXCEPT !.map = MapDelete(@, s.ent[evicted].key),
                                 !.stats.evictions = @ + 1]
            IN enforceMaxSize(onEvict(s2, s.ent[evicted].key,
                                      s.ent[evicted].value, "evicted"))
       ELSE s

\* The body shared by set and setWithSwr once the window is computed.
write(s, key, value, expiresAt, staleUntil) ==
  LET existing == MapGet(s.map, key) IN
  IF existing # 0
  THEN moveToFront([s EXCEPT !.ent[existing].value = value,
                             !.ent[existing].expiresAt = expiresAt,
                             !.ent[existing].staleUntil = staleUntil],
                   existing)
  ELSE LET o == NewObj(s, key)
           s1 == [s EXCEPT !.ent[o] = CacheEntry(key, value, expiresAt, staleUntil),
                           !.map = MapSet(@, key, o)]
       IN enforceMaxSize(addToFront(s1, o))

ttlOf(opt) == IF opt = Undefined THEN defaultTtlMs ELSE opt

swrOf(opt) == IF opt = Undefined THEN 0 ELSE opt

\* Variant: set keeps the stale window of the entry it overwrites.
setKeepsWindow(s, key, value, ttlMs) ==
  LET entry == MapGet(s.map, key)
      expiresAt == now + ttlOf(ttlMs)
      window == IF entry = 0 THEN 0
                ELSE s.ent[entry].staleUntil - s.ent[entry].expiresAt
  IN write(s, key, value, expiresAt, expiresAt + window)

set(s, key, value, ttlMs) ==
  LET expiresAt == now + ttlOf(ttlMs)
      staleUntil == expiresAt
  IN write(s, key, value, expiresAt, staleUntil)

\* Variant: a loader's write ignores swrMs.
setWithSwrNoWindow(s, key, value, ttlMs, swrMs) ==
  LET expiresAt == now + ttlOf(ttlMs)
  IN write(s, key, value, expiresAt, expiresAt)

setWithSwr(s, key, value, ttlMs, swrMs) ==
  LET expiresAt == now + ttlOf(ttlMs)
      staleUntil == expiresAt + swrOf(swrMs)
  IN write(s, key, value, expiresAt, staleUntil)

\* Variant: get serves every entry that has not expired.
getServesStale(s, key) ==
  LET entry == MapGet(s.map, key) IN
  IF entry = 0
  THEN [s |-> [s EXCEPT !.stats.misses = @ + 1], out |-> 0]
  ELSE IF isExpired(s.ent[entry], now)
       THEN [s |-> [removeEntry(s, entry, "expired")
                      EXCEPT !.stats.misses = @ + 1], out |-> 0]
       ELSE [s |-> [moveToFront(s, entry) EXCEPT !.stats.hits = @ + 1],
             out |-> s.ent[entry].value]

get(s, key) ==
  LET entry == MapGet(s.map, key) IN
  IF entry = 0
  THEN [s |-> [s EXCEPT !.stats.misses = @ + 1], out |-> 0]
  ELSE IF ~isFresh(s.ent[entry], now)
       THEN LET s1 == IF isExpired(s.ent[entry], now)
                      THEN removeEntry(s, entry, "expired") ELSE s
            IN [s |-> [s1 EXCEPT !.stats.misses = @ + 1], out |-> 0]
       ELSE [s |-> [moveToFront(s, entry) EXCEPT !.stats.hits = @ + 1],
             out |-> s.ent[entry].value]

\* Variant: peek promotes the entry it reads.
peekPromotes(s, key) ==
  LET entry == MapGet(s.map, key) IN
  IF entry = 0 THEN [s |-> s, out |-> 0]
  ELSE IF isExpired(s.ent[entry], now)
       THEN [s |-> removeEntry(s, entry, "expired"), out |-> 0]
       ELSE [s |-> moveToFront(s, entry), out |-> s.ent[entry].value]

peek(s, key) ==
  LET entry == MapGet(s.map, key) IN
  IF entry = 0 THEN [s |-> s, out |-> 0]
  ELSE IF isExpired(s.ent[entry], now)
       THEN [s |-> removeEntry(s, entry, "expired"), out |-> 0]
       ELSE [s |-> s, out |-> s.ent[entry].value]

has(s, key) ==
  LET entry == MapGet(s.map, key) IN
  IF entry = 0 THEN [s |-> s, out |-> FALSE]
  ELSE IF isExpired(s.ent[entry], now)
       THEN [s |-> removeEntry(s, entry, "expired"), out |-> FALSE]
       ELSE [s |-> s, out |-> TRUE]

\* Variant: delete reports an expired entry as not found.
deleteOnlyLive(s, key) ==
  LET entry == MapGet(s.map, key) IN
  IF entry = 0 THEN [s |-> s, out |-> FALSE]
  ELSE IF isExpired(s.ent[entry], now)
       THEN [s |-> removeEntry(s, entry, "expired"), out |-> FALSE]
       ELSE [s |-> removeEntry(s, entry, "manual"), out |-> TRUE]

delete(s, key) ==
  LET entry == MapGet(s.map, key) IN
  IF entry = 0 THEN [s |-> s, out |-> FALSE]
  ELSE [s |-> removeEntry(s, entry, "manual"), out |-> TRUE]

RECURSIVE clearLoop(_, _)
clearLoop(s, i) ==
  IF i > Len(s.map) THEN s
  ELSE clearLoop(onEvict(s, s.ent[s.map[i].e].key, s.ent[s.map[i].e].value,
                         "clear"), i + 1)

\* Variant: clear empties the map and leaves the list.
clearKeepsList(s) == [clearLoop(s, 1) EXCEPT !.map = <<>>]

clear(s) == listClear([clearLoop(s, 1) EXCEPT !.map = <<>>])

\* `for (const entry of this.map.values())` visits the entries in insertion
\* order; an entry deleted by the body is the one just visited.
RECURSIVE sweepLoop(_, _)
sweepLoop(s, todo) ==
  IF todo = <<>> THEN s
  ELSE LET entry == Head(todo).e IN
       sweepLoop(IF isExpired(s.ent[entry], now)
                 THEN removeEntry(s, entry, "expired") ELSE s,
                 Tail(todo))

\* Variant: the sweep looks at the first entry of the map only.
sweepFirstOnly(s) ==
  IF s.map = <<>> THEN s ELSE sweepLoop(s, <<Head(s.map)>>)

sweep(s) == sweepLoop(s, s.map)

prune(s) == sweep(s)

\* [Symbol.iterator] drained in one go, as `[...cache]` does: the first loop
\* yields the fresh entries and collects the expired ones.
\* Variant: the iterator yields every entry that has not expired.
RECURSIVE iteratorLoopYieldsStale(_, _, _, _)
iteratorLoopYieldsStale(s, todo, expired, out) ==
  IF todo = <<>> THEN [expired |-> expired, out |-> out]
  ELSE LET entry == Head(todo).e IN
       IF isExpired(s.ent[entry], now)
       THEN iteratorLoopYieldsStale(s, Tail(todo), Append(expired, entry), out)
       ELSE iteratorLoopYieldsStale(s, Tail(todo), expired,
              Append(out, <<s.ent[entry].key, s.ent[entry].value>>))

RECURSIVE iteratorLoop(_, _, _, _)
iteratorLoop(s, todo, expired, out) ==
  IF todo = <<>> THEN [expired |-> expired, out |-> out]
  ELSE LET entry == Head(todo).e IN
       IF isExpired(s.ent[entry], now)
       THEN iteratorLoop(s, Tail(todo), Append(expired, entry), out)
       ELSE IF isFresh(s.ent[entry], now)
       THEN iteratorLoop(s, Tail(todo), expired,
                         Append(out, <<s.ent[entry].key, s.ent[entry].value>>))
       ELSE iteratorLoop(s, Tail(todo), expired, out)

\* The second loop of the iterator: `for (const entry of expired)`.
RECURSIVE pruneExpired(_, _)
pruneExpired(s, expired) ==
  IF expired = <<>> THEN s
  ELSE pruneExpired(removeEntry(s, Head(expired), "expired"), Tail(expired))

iterator(s) ==
  LET r == iteratorLoop(s, s.map, <<>>, <<>>)
  IN [s |-> pruneExpired(s, r.expired), out |-> r.out]

\* The generator of [Symbol.iterator] between two calls of next(): `at` is
\* the key it yielded last (0 before the first call) and `expired` its local
\* array of entries.  The iterator of map.values() is live: the entries it
\* still visits are those the map holds after that key when next() is called.
Generator(at, expired) == [at |-> at, expired |-> expired]

Rest(m, at) ==
  IF at = 0 THEN m
  ELSE IF ~MapHas(m, at) THEN <<>>
  ELSE SubSeq(m, (CHOOSE i \in 1..Len(m) : m[i].k = at) + 1, Len(m))

\* One call of next(): the first loop runs up to its next `yield`, or to its
\* end and through the second loop.
RECURSIVE iteratorNext(_, _, _)
iteratorNext(s, todo, expired) ==
  IF todo = <<>>
  THEN [done |-> TRUE, s |-> pruneExpired(s, expired), out |-> <<>>,
        g |-> Generator(0, <<>>)]
  ELSE LET entry == Head(todo).e IN
       IF isExpired(s.ent[entry], now)
       THEN iteratorNext(s, Tail(todo), Append(expired, entry))
       ELSE IF isFresh(s.ent[entry], now)
       THEN [done |-> FALSE, s |-> s,
             out |-> <<s.ent[entry].key, s.ent[entry].value>>,
             g |-> Generator(s.ent[entry].key, expired)]
       ELSE iteratorNext(s, Tail(todo), expired)

next(s, g) == iteratorNext(s, Rest(s.map, g.at), g.expired)

\* The generator states in which an iteration started on s is suspended.
RECURSIVE Suspended(_, _)
Suspended(s, g) ==
  LET r == next(s, g) IN
  IF r.done THEN {} ELSE {r.g} \cup Suspended(s, r.g)

\* A suspended iteration is run to its end on store s.
RECURSIVE finish(_, _)
finish(s, g) ==
  LET r == next(s, g) IN IF r.done THEN r.s ELSE finish(s, r.g)

(* ------------------------- promises and callers ----------------------- *)
NoLoader == [state |-> "free", key |-> 0, ttlMs |-> Undefined,
             swrMs |-> Undefined, bg |-> FALSE, reg |-> FALSE]

FreeLoaders(s) == {l \in LoaderIds : s.loaders[l].state = "free"}

NextLoader(s) ==
  IF FreeLoaders(s) = {} THEN MaxLoaders + 1
  ELSE CHOOSE l \in FreeLoaders(s) : \A m \in FreeLoaders(s) : l <= m

\* executeLoader up to its `await loader()`: the loader has been invoked.
\* bg: started by refreshInBackground; reg: its promise was put in inflight.
executeLoader(key, ttlMs, swrMs, bg, reg) ==
  [state |-> "running", key |-> key, ttlMs |-> ttlMs, swrMs |-> swrMs,
   bg |-> bg, reg |-> reg]

\* withAbort(promise, signal) awaited by a getOrSet call: the call awaits
\* loader execution ldr; started: the call made the execution itself.
withAbort(key, ldr, started, dedupe, signal) ==
  [key |-> key, ldr |-> ldr, started |-> started, dedupe |-> dedupe,
   signal |-> (signal = "live")]

\* Variant: getOrSet never finds the in-flight promise.
existingPromiseNever(s, key, dedupe) == 0

\* Variant: the in-flight promise is reused whatever `dedupe` says.
existingPromiseAlways(s, key, dedupe) == s.inflight[key]

\* `options?.dedupe !== false` and the look-up of the in-flight promise.
existingPromise(s, key, dedupe) == IF dedupe THEN s.inflight[key] ELSE 0

\* Variant: a refresh is started whatever `inflight` holds.
refreshAlways(s, key, ttlMs, swrMs) ==
  LET l == NextLoader(s) IN
  [s EXCEPT !.loaders[l] = executeLoader(key, ttlMs, swrMs, TRUE, TRUE),
            !.inflight[key] = l]

refreshInBackground(s, key, ttlMs, swrMs) ==
  IF s.inflight[key] # 0 THEN s
  ELSE LET l == NextLoader(s) IN
       [s EXCEPT !.loaders[l] = executeLoader(key, ttlMs, swrMs, TRUE, TRUE),
                 !.inflight[key] = l]

\* Variant: a fresh hit that also revalidates in the background.
hitFreshRevalidates(s, entry) ==
  refreshInBackground([moveToFront(s, entry) EXCEPT !.stats.hits = @ + 1],
                      s.ent[entry].key, Undefined, Undefined)

\* getOrSet, branch 1: a fresh hit.
hitFresh(s, entry) == [moveToFront(s, entry) EXCEPT !.stats.hits = @ + 1]

\* Variant: a stale hit that is not counted.
hitStaleUncounted(s, key, entry, ttlMs, swrMs) ==
  refreshInBackground(moveToFront(s, entry), key, ttlMs, swrMs)

\* getOrSet, branch 2: a stale hit and its background revalidation.
hitStale(s, key, entry, ttlMs, swrMs) ==
  refreshInBackground([moveToFront(s, entry) EXCEPT !.stats.stale = @ + 1],
                      key, ttlMs, swrMs)

\* Variant: a miss that leaves the expired entry in the store.
missKeepsEntry(s, entry) == [s EXCEPT !.stats.misses = @ + 1]

\* getOrSet, branch 3 up to the miss being counted.
miss(s, entry) ==
  LET s0 == IF entry # 0 THEN removeEntry(s, entry, "expired") ELSE s
  IN [s0 EXCEPT !.stats.misses = @ + 1]

\* Variant: a call that attaches to the in-flight promise is not counted.
awaitAttachUncounted(s, key, ttlMs, swrMs, dedupe, signal) ==
  LET existing == existingPromise(s, key, dedupe)
      l == NextLoader(s)
  IN
  IF existing # 0
  THEN [s |-> [s EXCEPT !.stats.misses = @ - 1,
                        !.calls = @ (+) SetToBag(
                          {withAbort(key, existing, FALSE, dedupe, signal)})],
        path |-> "attach", out |-> 0]
  ELSE [s |-> [s EXCEPT
                 !.loaders[l] = executeLoader(key, ttlMs, swrMs, FALSE, dedupe),
                 !.inflight[key] = IF dedupe THEN l ELSE @,
                 !.calls = @ (+) SetToBag(
                   {withAbort(key, l, TRUE, dedupe, signal)})],
        path |-> "load", out |-> 0]

\* getOrSet, branch 3: await the in-flight promise, or a new execution.
await(s, key, ttlMs, swrMs, dedupe, signal) ==
  LET existing == existingPromise(s, key, dedupe)
      l == NextLoader(s)
  IN
  IF existing # 0
  THEN [s |-> [s EXCEPT !.calls = @ (+) SetToBag(
                 {withAbort(key, existing, FALSE, dedupe, signal)})],
        path |-> "attach", out |-> 0]
  ELSE [s |-> [s EXCEPT
                 !.loaders[l] = executeLoader(key, ttlMs, swrMs, FALSE, dedupe),
                 !.inflight[key] = IF dedupe THEN l ELSE @,
                 !.calls = @ (+) SetToBag(
                   {withAbort(key, l, TRUE, dedupe, signal)})],
        path |-> "load", out |-> 0]

\* Variant: the token is looked at only when the call is about to wait.
getOrSetLateCheck(s, key, ttlMs, swrMs, dedupe, signal) ==
  LET entry == MapGet(s.map, key) IN
  IF entry # 0 /\ isFresh(s.ent[entry], now)
  THEN [s |-> hitFresh(s, entry), path |-> "fresh", out |-> s.ent[entry].value]
  ELSE IF entry # 0 /\ isStale(s.ent[entry], now)
  THEN [s |-> hitStale(s, key, entry, ttlMs, swrMs),
        path |-> "stale", out |-> s.ent[entry].value]
  ELSE IF signal = "aborted"
  THEN [s |-> miss(s, entry), path |-> "aborted", out |-> 0]
  ELSE await(miss(s, entry), key, ttlMs, swrMs, dedupe, signal)

\* getOrSet up to its first await (or its return): path tells the branch
\* taken, out the value returned by a branch that returns one.
getOrSet(s, key, ttlMs, swrMs, dedupe, signal) ==
  LET entry == MapGet(s.map, key) IN
  IF signal = "aborted"
  THEN [s |-> s, path |-> "aborted", out |-> 0]
  ELSE IF entry # 0 /\ isFresh(s.ent[entry], now)
  THEN [s |-> hitFresh(s, entry), path |-> "fresh", out |-> s.ent[entry].value]
  ELSE IF entry # 0 /\ isStale(s.ent[entry], now)
  THEN [s |-> hitStale(s, key, entry, ttlMs, swrMs),
        path |-> "stale", out |-> s.ent[entry].value]
  ELSE await(miss(s, entry), key, ttlMs, swrMs, dedupe, signal)

\* The calls whose await settles with loader execution l.
Waiters(s, l) == {c \in BagToSet(s.calls) : c.ldr = l}

\* Variant: only a background refresh cleans `inflight` up.
deletesInflightRefreshOnly(s, l) == s.loaders[l].bg

\* Variant: no settlement cleans `inflight` up.
deletesInflightNever(s, l) == FALSE

\* Whether a settlement of l runs `this.inflight.delete(key)`: in the
\* `finally` of the getOrSet call that registered the promise and still
\* awaits it, or in the `.finally` of refreshInBackground.
deletesInflight(s, l) ==
  \/ s.loaders[l].bg
  \/ \E c \in Waiters(s, l) : c.started /\ c.dedupe

\* What a settlement hands to one awaiting party: a getOrSet call, or the
\* `.catch` of refreshInBackground.
Outcome(s, who, c, how, value) ==
  [who |-> who, call |-> c, how |-> how, out |-> value,
   bg |-> s.loaders[c.ldr].bg]

\* The promise chain refreshInBackground hangs on the execution it started.
refreshChain(s, l) ==
  IF s.loaders[l].bg
  THEN {withAbort(s.loaders[l].key, l, TRUE, TRUE, "none")}
  ELSE {}

\* The awaiting calls continue with the settlement of l, and l is over.
settle(s, l, how, value) ==
  LET rest == {c \in BagToSet(s.calls) : c.ldr # l} IN
  [s EXCEPT !.calls = [c \in rest |-> s.calls[c]],
            !.settled = {Outcome(s, "call", c, how, value) : c \in Waiters(s, l)}
                          \cup {Outcome(s, "refresh", c, how, value) :
                                   c \in refreshChain(s, l)},
            !.inflight[s.loaders[l].key] = IF deletesInflight(s, l) THEN 0 ELSE @,
            !.loaders[l] = NoLoader]

\* Variant: a loader's result does not overwrite an entry written meanwhile.
resolveKeepsEntry(s, l, value) ==
  LET s0 == IF MapHas(s.map, s.loaders[l].key) THEN s
            ELSE setWithSwr(s, s.loaders[l].key, value, s.loaders[l].ttlMs,
                            s.loaders[l].swrMs)
      s1 == [s0 EXCEPT !.stats.loads = @ + 1]
  IN settle(s1, l, "resolved", value)

\* The loader's promise fulfils with `value`: executeLoader continues after
\* its await, then the awaiting calls continue.
resolve(s, l, value) ==
  LET s0 == setWithSwr(s, s.loaders[l].key, value, s.loaders[l].ttlMs,
                       s.loaders[l].swrMs)
      s1 == [s0 EXCEPT !.stats.loads = @ + 1]
  IN settle(s1, l, "resolved", value)

\* Variant: a failed execution drops the entry of its key.
rejectDropsEntry(s, l) ==
  settle(delete(s, s.loaders[l].key).s, l, "rejected", 0)

\* The loader throws, or its promise rejects.
reject(s, l) == settle(s, l, "rejected", 0)

\* Whether the abort of call c runs the `finally` of getOrSet.
abortDeletes(c) == c.started /\ c.dedupe

\* Variant: a firing token cancels the loader execution for every call.
abortExecution(s, c) == settle(s, c.ldr, "aborted", 0)

\* The AbortSignal of awaiting call c fires: onAbort rejects the call's
\* promise, and the call continues into its `finally` if it has one.
abort(s, c) ==
  [s EXCEPT !.calls = @ (-) SetToBag({c}),
            !.settled = {Outcome(s, "call", c, "aborted", 0)},
            !.inflight[c.key] = IF abortDeletes(c) THEN 0 ELSE @]

(* ------------------------------- bounds ------------------------------- *)
StatsBounded(s) ==
  /\ s.stats.hits <= MaxStat
  /\ s.stats.misses <= MaxStat
  /\ s.stats.stale <= MaxStat
  /\ s.stats.evictions <= MaxStat

\* The step needed no more loader executions, awaiting calls or objects
\* than the model holds.
Fits(s, t) ==
  /\ StatsBounded(t)
  /\ BagCardinality(t.calls) <= MaxCalls
  /\ \A k \in DOMAIN t.inflight : t.inflight[k] \in LoaderIds \cup {0}
  /\ \A c \in BagToSet(t.calls) : c.ldr \in LoaderIds
  /\ \A i \in 1..Len(t.map) : t.map[i].e \in DOMAIN t.ent

Config == <<maxSize, defaultTtlMs>>

(* ------------------------------- actions ------------------------------ *)
InitCache(keys, objs) ==
  /\ now = 0
  /\ ent = [o \in objs |-> Blank]
  /\ map = <<>>
  /\ head = 0
  /\ tail = 0
  /\ inflight = [k \in keys |-> 0]
  /\ stats = [hits |-> 0, misses |-> 0, stale |-> 0, loads |-> 0, evictions |-> 0]
  /\ loaders = [l \in LoaderIds |-> NoLoader]
  /\ calls = EmptyBag
  /\ settled = {}

\* new TtlCache(options)
Constructor(ttlMs, maxSizeOpt) ==
  /\ defaultTtlMs = IF ttlMs = Undefined THEN DEFAULT_TTL_MS ELSE ttlMs
  /\ maxSize = maxSizeOpt

\* new TtlCache({ ttlMs: 2 })
Init ==
  /\ InitCache(Keys, Objs)
  /\ Constructor(2, Undefined)

\* One operation run to completion on the current state.
Do(s) ==
  \E t \in {s} :
    /\ Fits(Store, t)
    /\ Commit(t)
    /\ UNCHANGED <<now, Config>>

\* The sweep as the timer of a cache built with cleanupIntervalMs runs it,
\* at time t.
RECURSIVE sweepLoopAt(_, _, _)
sweepLoopAt(s, todo, t) ==
  IF todo = <<>> THEN s
  ELSE LET entry == Head(todo).e IN
       sweepLoopAt(IF isExpired(s.ent[entry], t)
                   THEN removeEntry(s, entry, "expired") ELSE s,
                   Tail(todo), t)

\* Variant: the cleanup timer fires whenever time has passed.
TickWithSweep ==
  /\ now < MaxTime
  /\ now' = now + 1
  /\ Commit(sweepLoopAt(Store, map, now + 1))
  /\ UNCHANGED Config

Tick ==
  /\ now < MaxTime
  /\ now' = now + 1
  /\ settled' = {}
  /\ UNCHANGED <<ent, map, head, tail, stats, inflight, loaders, calls, Config>>

Set(key, value, ttlMs) == Do(set(Store, key, value, ttlMs))

Get(key) == Do(get(Store, key).s)

Peek(key) == Do(peek(Store, key).s)

Has(key) == Do(has(Store, key).s)

Delete(key) == Do(delete(Store, key).s)

Clear == Do(clear(Store))

Prune == Do(prune(Store))

\* [...cache]
Iterate == Do(iterator(Store).s)

GetOrSet(key, ttlMs, swrMs, dedupe, signal) ==
  Do(getOrSet(Store, key, ttlMs, swrMs, dedupe, signal).s)

Resolve(l, value) ==
  /\ loaders[l].state = "running"
  /\ Do(resolve(Store, l, value))

Reject(l) ==
  /\ loaders[l].state = "running"
  /\ Do(reject(Store, l))

Abort(c) ==
  /\ c.signal
  /\ Do(abort(Store, c))

Next ==
  \/ Tick
  \/ \E key \in Keys, value \in Values, ttlMs \in TtlOpts : Set(key, value, ttlMs)
  \/ \E key \in Keys : Get(key)
  \/ \E key \in Keys : Peek(key)
  \/ \E key \in Keys : Has(key)
  \/ \E key \in Keys : Delete(key)
  \/ Clear
  \/ Prune
  \/ Iterate
  \/ \E key \in Keys, o \in GetOrSetOpts, dedupe \in BOOLEAN, signal \in Signals :
       GetOrSet(key, o.ttlMs, o.swrMs, dedupe, signal)
  \/ \E l \in LoaderIds, value \in Values : Resolve(l, value)
  \/ \E l \in LoaderIds : Reject(l)
  \/ \E c \in BagToSet(calls) : Abort(c)

Spec == Init /\ [][Next]_vars

(* --------------------- a cache with a capacity bound ------------------ *)
\* The keys of the running configuration.
CacheKeys == DOMAIN inflight

LruKeys == 1..NLruKeys

\* new TtlCache({ ttlMs: 2, maxSize: MaxSizeOpt }) or new TtlCache({ ttlMs: 2 }),
\* used with more keys than the bound allows.
InitLru ==
  \/ InitCache(LruKeys, LruKeys) /\ Constructor(2, MaxSizeOpt)
  \/ InitCache(LruKeys, LruKeys) /\ Constructor(2, Undefined)

TickLru == now < MaxLruTime /\ Tick

\* The reads this configuration counts: at most MaxLruStat of each kind.
StatsLru ==
  /\ stats.hits <= MaxLruStat
  /\ stats.misses <= MaxLruStat
  /\ stats.stale <= MaxLruStat

GetLru(key) == Get(key) /\ StatsLru'

\* Every key is written with a value of its own.
SetLru(key, ttlMs) == Set(key, key, ttlMs)

\* getOrSet(key, loader, { ttlMs: 1, swrMs: 1 }), while the model holds
\* fewer than MaxLruLoaders executions or the call is a hit.
GetOrSetLru(key) ==
  /\ \/ Cardinality({l \in LoaderIds : loaders[l].state = "running"}) < MaxLruLoaders
     \/ MapHas(map, key)
  /\ GetOrSet(key, 1, 1, TRUE, "none")
  /\ StatsLru'

\* The loader of a key returns the key's own value.
ResolveLru(l) ==
  /\ loaders[l].state = "running"
  /\ Resolve(l, loaders[l].key)

NextLru ==
  \/ TickLru
  \/ \E key \in CacheKeys, ttlMs \in TtlOpts : SetLru(key, ttlMs)
  \/ \E key \in CacheKeys : GetLru(key)
  \/ \E key \in CacheKeys : Peek(key)
  \/ \E key \in CacheKeys : Has(key)
  \/ \E key \in CacheKeys : Delete(key)
  \/ Clear
  \/ Prune
  \/ Iterate
  \/ \E key \in CacheKeys : GetOrSetLru(key)
  \/ \E l \in LoaderIds : ResolveLru(l)
  \/ \E l \in LoaderIds : Reject(l)

SpecLru == InitLru /\ [][NextLru]_vars

(* ------------------- loaders that eventually settle ------------------- *)
\* The promise of loader execution l settles, one way or the other.
Settle(l) == Reject(l) \/ \E value \in Values : Resolve(l, value)

\* getOrSet calls, of which at most MaxLruStat are counted as fresh hits and
\* as many as stale hits.
GetOrSetFair(key, o, dedupe, signal) ==
  /\ GetOrSet(key, o.ttlMs, o.swrMs, dedupe, signal)
  /\ stats'.hits <= MaxLruStat /\ stats'.stale <= MaxLruStat

NextFair ==
  \/ TickLru
  \/ \E key \in Keys, o \in GetOrSetOpts, dedupe \in BOOLEAN, signal \in Signals :
       GetOrSetFair(key, o, dedupe, signal)
  \/ \E key \in Keys : Delete(key)
  \/ \E l \in LoaderIds : Settle(l)
  \/ \E c \in BagToSet(calls) : Abort(c)

\* Every loader the cache has invoked returns or throws in the end.
SpecFair == Init /\ [][NextFair]_vars /\ \A l \in LoaderIds : WF_vars(Settle(l))

(* ----------------------------- properties ----------------------------- *)
Pending == BagToSet(calls)

Running(l) == loaders[l].state = "running"

\* The getOrSet calls a caller can make without a token that is already
\* cancelled.
LiveSignals == {"none", "live"}

\* Loader executions of `key` that a getOrSet call started and registered.
Started(key) ==
  {l \in LoaderIds : Running(l) /\ loaders[l].key = key
                       /\ loaders[l].reg /\ ~loaders[l].bg}

\* Background refreshes of `key` that have not settled.
Refreshing(key) ==
  {l \in LoaderIds : Running(l) /\ loaders[l].key = key /\ loaders[l].bg}

\* C1: deduplicating getOrSet calls on one key that found no fresh or stale
\* entry, none of them cancelled (every registered execution still has the
\* call that started it), await one and the same loader execution: the loader
\* was invoked once for them.  The calls an execution settles all get its
\* outcome, and a delivered value is the value the store then holds.
C1_DedupedCallsShareOneExecution ==
  /\ \A key \in Keys :
       LET G == {c \in Pending : c.key = key /\ c.dedupe} IN
       (\A l \in Started(key) : \E c \in G : c.started /\ c.ldr = l) =>
         /\ \A c1, c2 \in G : c1.ldr = c2.ldr
         /\ Cardinality(Started(key)) <= 1
         /\ \A c \in G : Running(c.ldr) /\ loaders[c.ldr].key = key
  /\ \A l \in LoaderIds, value \in Values :
       Running(l) =>
         /\ \A c \in Waiters(Store, l) :
              Outcome(Store, "call", c, "resolved", value)
                \in resolve(Store, l, value).settled
         /\ \A c \in Waiters(Store, l) :
              Outcome(Store, "call", c, "rejected", 0) \in reject(Store, l).settled
  /\ \A o \in settled :
       o.who = "call" /\ o.how = "resolved" =>
         /\ MapHas(map, o.call.key)
         /\ ent[MapGet(map, o.call.key)].value = o.out

\* Two deduplicating calls, the one that started the loader and one that
\* attached to it, have just resolved together.
C1_Witness ==
  \E o1, o2 \in settled :
    /\ o1.how = "resolved" /\ o2.how = "resolved"
    /\ o1.who = "call" /\ o2.who = "call"
    /\ o1.call.dedupe /\ o2.call.dedupe
    /\ o1.call.started /\ ~o2.call.started
    /\ o1.out = o2.out /\ ~o1.bg

\* C2: a registered loader execution stays in `inflight` until it settles.
C2_RegisteredUntilSettled ==
  \A l \in LoaderIds :
    Running(l) /\ loaders[l].reg => inflight[loaders[l].key] = l

\* C3: when the token of one awaiting call fires, that call alone rejects
\* with the cancellation error: the loader execution keeps running, the other
\* calls keep awaiting it, the store is untouched, and a later success of the
\* loader resolves the others with its value and writes it to the store.
C3_CancellationIsolated ==
  /\ \A c \in Pending : Running(c.ldr) /\ loaders[c.ldr].key = c.key
  /\ \A o \in settled :
       o.how = "aborted" => Running(o.call.ldr) /\ o.who = "call"
  /\ \A c \in Pending :
       c.signal =>
         LET t == abort(Store, c) IN
         /\ t.settled = {Outcome(Store, "call", c, "aborted", 0)}
         /\ t.calls = calls (-) SetToBag({c})
         /\ t.loaders = loaders
         /\ t.map = map /\ t.ent = ent /\ t.head = head /\ t.tail = tail
         /\ \A d \in BagToSet(t.calls), value \in Values :
              d.ldr = c.ldr =>
                LET u == resolve(t, d.ldr, value) IN
                /\ Outcome(t, "call", d, "resolved", value) \in u.settled
                /\ MapHas(u.map, d.key)
                /\ u.ent[MapGet(u.map, d.key)].value = value

\* One call has just been cancelled while another still awaits the same
\* loader execution.
C3_Witness ==
  \E o \in settled :
    /\ o.how = "aborted"
    /\ \E c \in Pending : c.ldr = o.call.ldr /\ Running(c.ldr)

\* C4: when a foreground loader execution fails, every call awaiting it
\* rejects with that error, no entry is written, a promise it registered is
\* out of `inflight`, and no loader is invoked by the cache on its own; the
\* next getOrSet on the key (no fresh or stale entry, nothing else in flight)
\* invokes its loader.
C4_ForegroundFailure ==
  \A l \in LoaderIds :
    Running(l) /\ ~loaders[l].bg =>
      LET key == loaders[l].key
          t == reject(Store, l)
          entry == MapGet(t.map, key)
      IN
      /\ t.settled = {Outcome(Store, "call", c, "rejected", 0) :
                        c \in Waiters(Store, l)}
      /\ Waiters(t, l) = {}
      /\ t.map = map /\ t.ent = ent /\ t.head = head /\ t.tail = tail
      /\ t.stats = stats
      /\ t.inflight[key] # l
      /\ inflight[key] = l => t.inflight[key] = 0
      /\ \A m \in LoaderIds :
           t.loaders[m] = IF m = l THEN NoLoader ELSE loaders[m]
      /\ \A o \in GetOrSetOpts, dedupe \in BOOLEAN, signal \in LiveSignals :
           (entry = 0 \/ isExpired(t.ent[entry], now)) /\ t.inflight[key] = 0 =>
             LET r == getOrSet(t, key, o.ttlMs, o.swrMs, dedupe, signal) IN
             /\ r.path = "load"
             /\ r.s.loaders[NextLoader(t)] =
                  executeLoader(key, o.ttlMs, o.swrMs, FALSE, dedupe)

\* A foreground loader has just failed for two calls, leaving no entry and
\* nothing in flight.
C4_Witness ==
  /\ \E o1, o2 \in settled :
       /\ o1 # o2
       /\ o1.who = "call" /\ o1.how = "rejected" /\ ~o1.bg
       /\ o2.who = "call" /\ o2.how = "rejected"
  /\ map = <<>>
  /\ \A key \in Keys : inflight[key] = 0

\* C5: no getOrSet call rejects with the error of a background refresh.
C5_RefreshErrorNeverReachesCaller ==
  \A o \in settled : o.who = "call" /\ o.how = "rejected" => ~o.bg

\* C6: a background refresh that fails leaves the store as it was (the stale
\* entry keeps value and window), its promise leaves `inflight`, and a later
\* stale hit on the key starts a new refresh.
C6_FailedRefreshLeavesEntry ==
  \A l \in LoaderIds :
    Running(l) /\ loaders[l].bg =>
      LET key == loaders[l].key
          t == reject(Store, l)
          entry == MapGet(t.map, key)
      IN
      /\ t.map = map /\ t.ent = ent /\ t.head = head /\ t.tail = tail
      /\ t.stats = stats
      /\ t.inflight[key] = 0
      /\ t.loaders[l] = NoLoader
      /\ Outcome(Store, "refresh", withAbort(key, l, TRUE, TRUE, "none"),
                 "rejected", 0) \in t.settled
      /\ \A o \in GetOrSetOpts, dedupe \in BOOLEAN, signal \in LiveSignals :
           entry # 0 /\ isStale(t.ent[entry], now) =>
             LET r == getOrSet(t, key, o.ttlMs, o.swrMs, dedupe, signal) IN
             /\ r.path = "stale"
             /\ r.out = ent[entry].value
             /\ r.s.inflight[key] \in LoaderIds
             /\ r.s.loaders[r.s.inflight[key]] =
                  executeLoader(key, o.ttlMs, o.swrMs, TRUE, TRUE)

\* A background refresh has just failed and the entry it was to refresh is
\* still resident and stale.
C6_Witness ==
  \E o \in settled :
    /\ o.who = "refresh" /\ o.how = "rejected"
    /\ MapHas(map, o.call.key)
    /\ isStale(ent[MapGet(map, o.call.key)], now)
    /\ inflight[o.call.key] = 0

\* C7: at most one background refresh runs per key, it is the promise in
\* `inflight`, and a stale hit while it is outstanding starts no loader.
C7_RefreshSingleFlight ==
  \A key \in Keys :
    LET entry == MapGet(map, key) IN
    /\ Cardinality(Refreshing(key)) <= 1
    /\ \A l \in Refreshing(key) : inflight[key] = l
    /\ \A o \in GetOrSetOpts, dedupe \in BOOLEAN, signal \in LiveSignals :
         Refreshing(key) # {} /\ entry # 0 /\ isStale(ent[entry], now) =>
           LET r == getOrSet(Store, key, o.ttlMs, o.swrMs, dedupe, signal) IN
           /\ r.path = "stale"
           /\ r.s.loaders = loaders
           /\ r.s.inflight = inflight

\* A second stale hit has been served while the refresh the first one
\* started is still outstanding.
C7_Witness ==
  \E key \in Keys :
    /\ Refreshing(key) # {}
    /\ MapHas(map, key)
    /\ isStale(ent[MapGet(map, key)], now)
    /\ stats.stale >= 2

\* C8: a getOrSet on a stale entry returns the entry's value without
\* awaiting anything, makes the entry the most recently used and counts one
\* served-stale; when the refresh succeeds the entry holds the refreshed
\* value, and a getOrSet in its fresh window returns that value and invokes
\* no loader.
C8_StaleHitAndRefresh ==
  \A key \in Keys :
    LET entry == MapGet(map, key) IN
    /\ \A o \in GetOrSetOpts, dedupe \in BOOLEAN, signal \in LiveSignals :
         entry # 0 /\ isStale(ent[entry], now) =>
           LET r == getOrSet(Store, key, o.ttlMs, o.swrMs, dedupe, signal) IN
           /\ r.path = "stale"
           /\ r.out = ent[entry].value
           /\ r.s.calls = calls
           /\ r.s.head = entry
           /\ r.s.map = map
           /\ r.s.stats = [stats EXCEPT !.stale = @ + 1]
           /\ r.s.inflight[key] = IF inflight[key] # 0 THEN inflight[key]
                                  ELSE NextLoader(Store)
           /\ r.s.evicts = <<>>
    /\ \A l \in Refreshing(key), value \in Values :
         LET t == resolve(Store, l, value)
             e2 == MapGet(t.map, key)
         IN
         /\ e2 # 0
         /\ t.ent[e2].value = value
         /\ t.ent[e2].expiresAt = now + ttlOf(loaders[l].ttlMs)
         /\ isFresh(t.ent[e2], now)
         /\ t.inflight[key] = 0
         /\ \A o \in GetOrSetOpts, dedupe \in BOOLEAN, signal \in LiveSignals :
              LET r == getOrSet(t, key, o.ttlMs, o.swrMs, dedupe, signal) IN
              /\ r.path = "fresh"
              /\ r.out = value
              /\ r.s.loaders = t.loaders
              /\ r.s.calls = t.calls

\* A refresh started by a stale hit has just succeeded, and the entry holds
\* the refreshed value, which differs from the one served stale.
C8_Witness ==
  \E o \in settled :
    /\ o.who = "refresh" /\ o.how = "resolved"
    /\ stats.stale >= 1
    /\ MapHas(map, o.call.key)
    /\ ent[MapGet(map, o.call.key)].value = o.out
    /\ isFresh(ent[MapGet(map, o.call.key)], now)
    /\ stats.loads >= 2

\* C9: a getOrSet on an entry past its stale window never returns the old
\* value: it removes the entry (reported once, reason expired), counts a
\* miss, and awaits a loader execution, a new one or the one in flight.
C9_ExpiredNeverServed ==
  \A key \in Keys :
    LET entry == MapGet(map, key) IN
    \A o \in GetOrSetOpts, dedupe \in BOOLEAN, signal \in LiveSignals :
      entry # 0 /\ isExpired(ent[entry], now) =>
        LET r == getOrSet(Store, key, o.ttlMs, o.swrMs, dedupe, signal)
            c == withAbort(key, IF r.path = "attach" THEN inflight[key]
                                ELSE NextLoader(Store),
                           r.path = "load", dedupe, signal)
        IN
        /\ r.path \in {"load", "attach"}
        /\ r.out = 0
        /\ ~MapHas(r.s.map, key)
        /\ r.s.evicts = <<<<key, ent[entry].value, "expired">>>>
        /\ r.s.stats = [stats EXCEPT !.misses = @ + 1, !.evictions = @ + 1]
        /\ r.s.calls = calls (+) SetToBag({c})
        /\ r.path = "attach" => dedupe /\ Running(inflight[key])
                                  /\ r.s.loaders = loaders
        /\ r.path = "load" /\ c.ldr \in LoaderIds =>
             r.s.loaders[c.ldr] = executeLoader(key, o.ttlMs, o.swrMs, FALSE, dedupe)

\* An entry written by a loader has expired, and a getOrSet has removed it
\* and awaits a new loader execution.
C9_Witness ==
  \E key \in Keys :
    /\ ~MapHas(map, key)
    /\ stats.loads >= 1
    /\ stats.evictions >= 1
    /\ stats.misses >= 2
    /\ stats.hits = 0 /\ stats.stale = 0
    /\ \E c \in Pending : c.key = key /\ c.started

\* C10: get returns a value only for a fresh entry; on a stale entry it
\* returns not-found, counts a miss, and leaves the entry and the recency
\* order as they were, so that a following getOrSet still serves it stale.
C10_GetServesOnlyFresh ==
  \A key \in Keys :
    LET entry == MapGet(map, key)
        r == get(Store, key)
    IN
    /\ r.out # 0 => entry # 0 /\ isFresh(ent[entry], now) /\ r.out = ent[entry].value
    /\ entry # 0 /\ isFresh(ent[entry], now) => r.out = ent[entry].value
    /\ entry # 0 /\ isStale(ent[entry], now) =>
         /\ r.out = 0
         /\ r.s.stats = [stats EXCEPT !.misses = @ + 1]
         /\ r.s.map = map /\ r.s.ent = ent /\ r.s.head = head /\ r.s.tail = tail
         /\ r.s.evicts = <<>>
         /\ \A o \in GetOrSetOpts, dedupe \in BOOLEAN, signal \in LiveSignals :
              LET q == getOrSet(r.s, key, o.ttlMs, o.swrMs, dedupe, signal) IN
              q.path = "stale" /\ q.out = ent[entry].value

\* get has been called on a stale entry (the second miss; the first was the
\* getOrSet that loaded the entry) and the entry is still resident and stale.
C10_Witness ==
  \E key \in Keys :
    /\ MapHas(map, key)
    /\ isStale(ent[MapGet(map, key)], now)
    /\ stats.misses = 2 /\ stats.loads = 1 /\ stats.evictions = 0
    /\ stats.hits = 0 /\ stats.stale = 0
    /\ Pending = {} /\ \A l \in LoaderIds : ~Running(l)

\* C11: peek returns a value only for a fresh entry, as get does: never for
\* a stale or an expired one.
C11_PeekServesOnlyFresh ==
  \A key \in CacheKeys :
    LET entry == MapGet(map, key)
        r == peek(Store, key)
    IN
    /\ r.out # 0 => entry # 0 /\ isFresh(ent[entry], now)
    /\ r.out = get(Store, key).out

\* The entries of the list from `o` on, following next (prev when ~fwd), at
\* most n of them.
RECURSIVE Walk(_, _, _, _)
Walk(s, o, fwd, n) ==
  IF o = 0 \/ n = 0 THEN <<>>
  ELSE <<o>> \o Walk(s, IF fwd THEN s.ent[o].next ELSE s.ent[o].prev, fwd, n - 1)

\* Head-to-tail and tail-to-head traversals of the list.
Forward(s) == Walk(s, s.head, TRUE, Cardinality(DOMAIN s.ent) + 1)

Backward(s) == Walk(s, s.tail, FALSE, Cardinality(DOMAIN s.ent) + 1)

\* The recency order: the keys from most to least recently used.
Order(s) == [i \in 1..Len(Forward(s)) |-> s.ent[Forward(s)[i]].key]

Reverse(q) == [i \in 1..Len(q) |-> q[Len(q) + 1 - i]]

Without(q, key) == LET keep(k) == k # key IN SelectSeq(q, keep)

\* What a touch of `key` makes of recency order q.
Touched(q, key) == <<key>> \o Without(q, key)

\* The part of order q a cache with the configured bound keeps, and the
\* part it gives up, least recently used first.
Kept(q) ==
  IF maxSize = Undefined \/ Len(q) <= maxSize THEN q ELSE SubSeq(q, 1, maxSize)

Dropped(q) ==
  IF maxSize = Undefined \/ Len(q) <= maxSize THEN <<>>
  ELSE Reverse(SubSeq(q, maxSize + 1, Len(q)))

\* The onEvict reports for the keys of q, as they are in the store.
Reports(q, reason) ==
  [i \in 1..Len(q) |-> <<q[i], ent[MapGet(map, q[i])].value, reason>>]

C13_PeekHasKeepOrder ==
  \A key \in CacheKeys :
    LET entry == MapGet(map, key)
        p == peek(Store, key)
        h == has(Store, key)
    IN
    /\ entry # 0 /\ ~isExpired(ent[entry], now) =>
         /\ p.s = Store /\ p.out = ent[entry].value
         /\ h.s = Store /\ h.out
         /\ peek(p.s, key) = p /\ has(h.s, key) = h
    /\ Order(p.s) \in {Order(Store), Without(Order(Store), key)}
    /\ Order(h.s) \in {Order(Store), Without(Order(Store), key)}
    /\ p.s.stats.hits = stats.hits /\ h.s.stats.hits = stats.hits
    /\ p.s.stats.misses = stats.misses /\ h.s.stats.misses = stats.misses
    /\ p.s.stats.stale = stats.stale /\ h.s.stats.stale = stats.stale

\* A full cache whose least recently used key is read by peek and stays the
\* one evicted next.
C13_Witness ==
  /\ maxSize = 2 /\ Len(map) = 2
  /\ \E key \in CacheKeys :
       /\ tail = MapGet(map, key) /\ head # tail
       /\ peek(Store, key).out = key
       /\ has(Store, key).out
       /\ peek(Store, key).s.tail = tail
       /\ \E other \in CacheKeys \ MapKeys(map) :
            set(peek(Store, key).s, other, other, Undefined).evicts
              = <<<<key, key, "evicted">>>>

\* The store after each operation that can insert an entry: set, and the
\* write of a loader that succeeds.
Insertions ==
  {set(Store, key, value, ttlMs) :
     key \in CacheKeys, value \in Values, ttlMs \in TtlOpts}
  \cup {resolve(Store, l, value) :
          l \in {m \in LoaderIds : Running(m)}, value \in Values}

\* The store after each other operation or callback.
OtherResults ==
  {get(Store, key).s : key \in CacheKeys}
  \cup {peek(Store, key).s : key \in CacheKeys}
  \cup {has(Store, key).s : key \in CacheKeys}
  \cup {delete(Store, key).s : key \in CacheKeys}
  \cup {clear(Store), prune(Store), iterator(Store).s}
  \cup {getOrSet(Store, key, o.ttlMs, o.swrMs, dedupe, signal).s :
          key \in CacheKeys, o \in GetOrSetOpts, dedupe \in BOOLEAN,
          signal \in Signals}
  \cup {reject(Store, l) : l \in {m \in LoaderIds : Running(m)}}
  \cup {abort(Store, c) : c \in {d \in Pending : d.signal}}

\* The reasons of the onEvict reports of an operation.
Reasons(t) == {t.evicts[i][3] : i \in 1..Len(t.evicts)}

C16_PreAbortedDoesNothing ==
  \A key \in CacheKeys, o \in GetOrSetOpts, dedupe \in BOOLEAN :
    LET r == getOrSet(Store, key, o.ttlMs, o.swrMs, dedupe, "aborted") IN
    /\ r.path = "aborted"
    /\ r.out = 0
    /\ r.s = Store

\* A stale entry with no refresh in flight, or an expired one: a call with a
\* live token would start a loader here, one with a cancelled token leaves
\* everything as it is.
C16_Witness ==
  \E key \in CacheKeys :
    /\ MapHas(map, key)
    /\ ~isFresh(ent[MapGet(map, key)], now)
    /\ inflight[key] = 0
    /\ getOrSet(Store, key, 1, 1, TRUE, "live").s.loaders # loaders
    /\ getOrSet(Store, key, 1, 1, TRUE, "aborted").s = Store

\* The entries of the store that an operation resulting in t took out of the
\* map, as <<key, value>>.
Removed(t) ==
  LET after == {t.map[i].e : i \in 1..Len(t.map)}
      gone == {i \in 1..Len(map) : map[i].e \notin after}
  IN {<<ent[map[i].e].key, ent[map[i].e].value>> : i \in gone}

\* The <<key, value>> pairs an operation reported to onEvict.
Reported(t) == {<<t.evicts[i][1], t.evicts[i][2]>> : i \in 1..Len(t.evicts)}

\* The keys of the map in insertion order.
KeySeq(m) == [i \in 1..Len(m) |-> m[i].k]

\* Whether every report of t is about an entry that had expired.
OnlyExpired(t) ==
  /\ Reasons(t) \subseteq {"expired"}
  /\ \A i \in 1..Len(t.evicts) :
       isExpired(ent[MapGet(map, t.evicts[i][1])], now)

RECURSIVE FreshPairs(_)
FreshPairs(m) ==
  IF m = <<>> THEN <<>>
  ELSE LET e == ent[Head(m).e] IN
       IF isFresh(e, now) THEN <<<<e.key, e.value>>>> \o FreshPairs(Tail(m))
       ELSE FreshPairs(Tail(m))

\* C18: an iteration yields exactly the entries that are fresh at iteration
\* time; a stale entry is not yielded, stays resident and is still served by
\* getOrSet; an expired entry is not yielded and has been removed with reason
\* expired when the iteration completes.
C18_IterationYieldsFresh ==
  LET r == iterator(Store) IN
  /\ r.out = FreshPairs(map)
  /\ \A i \in 1..Len(map) :
       LET e == ent[map[i].e] IN
       /\ isStale(e, now) =>
            /\ \A j \in 1..Len(r.out) : r.out[j][1] # e.key
            /\ MapGet(r.s.map, e.key) = map[i].e
            /\ r.s.ent[map[i].e].value = e.value
            /\ r.s.ent[map[i].e].expiresAt = e.expiresAt
            /\ r.s.ent[map[i].e].staleUntil = e.staleUntil
            /\ \A signal \in LiveSignals :
                 LET g == getOrSet(r.s, e.key, 1, 1, TRUE, signal) IN
                 g.path = "stale" /\ g.out = e.value
       /\ isExpired(e, now) =>
            /\ \A j \in 1..Len(r.out) : r.out[j][1] # e.key
            /\ ~MapHas(r.s.map, e.key)
            /\ \E j \in 1..Len(r.s.evicts) :
                 r.s.evicts[j] = <<e.key, e.value, "expired">>
       /\ isFresh(e, now) => MapGet(r.s.map, e.key) = map[i].e

\* A cache holding a fresh, a stale and an expired entry, whose iteration
\* yields the one and removes the other.
C18_Witness ==
  \E k1, k2, k3 \in MapKeys(map) :
    /\ isFresh(ent[MapGet(map, k1)], now)
    /\ isStale(ent[MapGet(map, k2)], now)
    /\ isExpired(ent[MapGet(map, k3)], now)
    /\ iterator(Store).out = <<<<k1, k1>>>>
    /\ MapKeys(iterator(Store).s.map) = {k1, k2}

\* The times at which an entry of the model can be looked at.
Times == 0..(MaxTime + 2)

\* C19: an entry written by set has staleUntil = expiresAt = now + ttl, with
\* ttl the override of the call or else the default, so at no time is it
\* stale; this holds as well when set overwrites an entry that a loader wrote
\* with a stale window, and from expiresAt on getOrSet treats such an entry as
\* expired and does not serve its value.
C19_SetOpensNoWindow ==
  /\ \A key \in CacheKeys, value \in Values, ttlMs \in TtlOpts :
       LET t == set(Store, key, value, ttlMs)
           e == t.ent[MapGet(t.map, key)]
       IN /\ MapHas(t.map, key)
          /\ e.value = value
          /\ e.expiresAt = now + (IF ttlMs = Undefined THEN defaultTtlMs ELSE ttlMs)
          /\ e.staleUntil = e.expiresAt
          /\ \A u \in Times : ~isStale(e, u)
          /\ \A u \in Times : u >= e.expiresAt => isExpired(e, u)
  /\ \A i \in 1..Len(map) :
       LET e == ent[map[i].e] IN
       (e.staleUntil = e.expiresAt /\ now >= e.expiresAt) =>
         \A o \in GetOrSetOpts, dedupe \in BOOLEAN, signal \in LiveSignals :
           LET r == getOrSet(Store, e.key, o.ttlMs, o.swrMs, dedupe, signal) IN
           /\ r.path \in {"attach", "load"}
           /\ r.out = 0
           /\ ~MapHas(r.s.map, e.key)
           /\ r.s.stats.hits = stats.hits /\ r.s.stats.stale = stats.stale
           /\ r.s.stats.misses = stats.misses + 1
           /\ r.s.evicts = <<<<e.key, e.value, "expired">>>>

\* A loader-written entry inside its stale window, which getOrSet serves,
\* and which a set with a ttl of 1 replaces by an entry without a window.
C19_Witness ==
  \E key \in CacheKeys :
    LET entry == MapGet(map, key)
        t == set(Store, key, 1, 1)
    IN /\ entry # 0
       /\ stats.loads >= 1
       /\ isStale(ent[entry], now)
       /\ getOrSet(Store, key, 1, 1, TRUE, "none").path = "stale"
       /\ t.ent[MapGet(t.map, key)].staleUntil = now + 1
       /\ ent[entry].staleUntil > now

\* C20: when a loader execution succeeds, in the foreground or as a
\* background refresh, the entry is written with expiresAt = t + ttl and
\* staleUntil = expiresAt + swrWindow, where t is the time of completion, ttl
\* the ttlMs the execution was started with or else the default, and
\* swrWindow its swrMs or else 0; so staleUntil >= expiresAt for every
\* resident entry.
C20_LoaderWriteWindows ==
  /\ \A l \in LoaderIds, value \in Values :
       Running(l) =>
         LET t == resolve(Store, l, value)
             e == t.ent[MapGet(t.map, loaders[l].key)]
             ttl == IF loaders[l].ttlMs = Undefined THEN defaultTtlMs
                    ELSE loaders[l].ttlMs
             swrWindow == IF loaders[l].swrMs = Undefined THEN 0
                          ELSE loaders[l].swrMs
         IN /\ MapHas(t.map, loaders[l].key)
            /\ e.value = value
            /\ e.expiresAt = now + ttl
            /\ e.staleUntil = now + ttl + swrWindow
  /\ \A i \in 1..Len(map) : ent[map[i].e].staleUntil >= ent[map[i].e].expiresAt

\* After time has passed, a background refresh and a foreground execution
\* are running, the refresh with ttlMs 1 and swrMs 1: its success writes
\* expiresAt = now + 1 and staleUntil = now + 2.
C20_Witness ==
  \E l1, l2 \in LoaderIds :
    /\ now >= 1
    /\ Running(l1) /\ loaders[l1].bg
    /\ loaders[l1].ttlMs = 1 /\ loaders[l1].swrMs = 1
    /\ Running(l2) /\ ~loaders[l2].bg
    /\ LET t == resolve(Store, l1, 2)
           e == t.ent[MapGet(t.map, loaders[l1].key)]
       IN e.expiresAt = now + 1 /\ e.staleUntil = now + 2

\* C21: getOrSet on a fresh entry returns the stored value at once: no
\* loader is invoked, `inflight` and the awaiting calls stay as they are, the
\* entry becomes the most recently used one and one hit is counted; a repeated
\* call inside the fresh window does the same again.
C21_FreshHitNoLoader ==
  \A key \in CacheKeys :
    LET entry == MapGet(map, key) IN
    entry # 0 /\ now < ent[entry].expiresAt =>
      \A o \in GetOrSetOpts, dedupe \in BOOLEAN, signal \in LiveSignals :
        LET r == getOrSet(Store, key, o.ttlMs, o.swrMs, dedupe, signal)
            again == getOrSet(r.s, key, o.ttlMs, o.swrMs, dedupe, signal)
        IN
        /\ r.path = "fresh" /\ r.out = ent[entry].value
        /\ r.s.loaders = loaders /\ r.s.inflight = inflight
        /\ r.s.calls = calls
        /\ r.s.head = entry
        /\ Order(r.s) = Touched(Order(Store), key)
        /\ r.s.map = map /\ r.s.evicts = <<>>
        /\ r.s.ent[entry].value = ent[entry].value
        /\ r.s.ent[entry].expiresAt = ent[entry].expiresAt
        /\ r.s.ent[entry].staleUntil = ent[entry].staleUntil
        /\ r.s.stats = [stats EXCEPT !.hits = @ + 1]
        /\ again.path = "fresh" /\ again.out = r.out
        /\ again.s.loaders = loaders /\ again.s.inflight = inflight
        /\ again.s.stats = [stats EXCEPT !.hits = @ + 2]

\* A loader has succeeded and cleaned `inflight` up; its entry is fresh and
\* is not the most recently used one, so a further getOrSet promotes it.
C21_Witness ==
  \E key \in CacheKeys :
    LET entry == MapGet(map, key) IN
    /\ stats.loads = 1 /\ stats.misses = 1
    /\ entry # 0 /\ isFresh(ent[entry], now)
    /\ ent[entry].staleUntil > ent[entry].expiresAt
    /\ inflight[key] = 0 /\ \A l \in LoaderIds : ~Running(l)
    /\ head # entry
    /\ getOrSet(Store, key, 1, 1, TRUE, "none").s.head = entry

\* Loader executions that a getOrSet call with dedupe disabled started.
Unshared == {l \in LoaderIds : Running(l) /\ ~loaders[l].reg /\ ~loaders[l].bg}

\* C22: a getOrSet call with dedupe disabled that finds no fresh or stale
\* entry starts a loader execution of its own, whatever `inflight` holds, and
\* leaves `inflight` alone, when it starts, when it is cancelled and when its
\* execution settles; nobody else awaits that execution, so each of several
\* such calls gets the outcome of its own execution.
C22_NoDedupeOwnExecution ==
  /\ \A key \in CacheKeys, o \in GetOrSetOpts, signal \in LiveSignals :
       LET r == getOrSet(Store, key, o.ttlMs, o.swrMs, FALSE, signal)
           l == NextLoader(Store)
       IN
       r.path \notin {"fresh", "stale"} /\ l \in LoaderIds =>
         /\ r.path = "load"
         /\ r.s.inflight = inflight
         /\ r.s.loaders =
              [loaders EXCEPT ![l] = [state |-> "running", key |-> key,
                                      ttlMs |-> o.ttlMs, swrMs |-> o.swrMs,
                                      bg |-> FALSE, reg |-> FALSE]]
         /\ r.s.calls = calls (+) SetToBag(
              {[key |-> key, ldr |-> l, started |-> TRUE, dedupe |-> FALSE,
                signal |-> (signal = "live")]})
         /\ r.s.stats.misses = stats.misses + 1
         /\ r.s.stats.hits = stats.hits /\ r.s.stats.stale = stats.stale
         /\ r.s.stats.loads = stats.loads
  /\ \A l \in Unshared :
       /\ \A key \in CacheKeys : inflight[key] # l
       /\ \A c \in Waiters(Store, l) :
            c.started /\ ~c.dedupe /\ c.key = loaders[l].key /\ calls[c] = 1
       /\ Cardinality(Waiters(Store, l)) <= 1
       /\ reject(Store, l).inflight = inflight
       /\ reject(Store, l).settled =
            {Outcome(Store, "call", c, "rejected", 0) : c \in Waiters(Store, l)}
       /\ \A value \in Values :
            /\ resolve(Store, l, value).inflight = inflight
            /\ resolve(Store, l, value).settled =
                 {Outcome(Store, "call", c, "resolved", value) :
                    c \in Waiters(Store, l)}
            /\ \A m \in Unshared \ {l} :
                 \A c \in Waiters(Store, m) :
                   c \in BagToSet(resolve(Store, l, value).calls)
  /\ \A c \in Pending : ~c.dedupe => abort(Store, c).inflight = inflight

\* A deduplicating call has registered its execution for a key, and a call
\* with dedupe disabled on the same key awaits a second execution of its own.
C22_Witness ==
  \E l1, l2 \in LoaderIds, c1, c2 \in Pending :
    /\ l1 # l2 /\ Running(l1) /\ Running(l2)
    /\ loaders[l1].key = loaders[l2].key
    /\ inflight[loaders[l1].key] = l1
    /\ l2 \in Unshared
    /\ c1.ldr = l1 /\ c1.dedupe /\ c1.started
    /\ c2.ldr = l2 /\ ~c2.dedupe /\ c2.started
    /\ resolve(Store, l2, 2).settled = {Outcome(Store, "call", c2, "resolved", 2)}
    /\ resolve(Store, l2, 2).inflight = inflight

\* C23: delete returns true exactly when the key is resident, whatever the
\* state of its entry; the key is then gone from the map and from the list,
\* size is one less, and the other entries, their fields and their recency
\* order are as before; for a key that is not resident it returns false and
\* changes nothing.
C23_DeleteRemovesExactlyKey ==
  \A key \in CacheKeys :
    LET r == delete(Store, key) IN
    /\ r.out = MapHas(map, key)
    /\ ~MapHas(map, key) => r.s = Store
    /\ MapHas(map, key) =>
         /\ ~MapHas(r.s.map, key)
         /\ \A i \in 1..Len(Forward(r.s)) : r.s.ent[Forward(r.s)[i]].key # key
         /\ size(r.s) = size(Store) - 1
         /\ KeySeq(r.s.map) = Without(KeySeq(map), key)
         /\ Order(r.s) = Without(Order(Store), key)
         /\ Backward(r.s) = Reverse(Forward(r.s))
         /\ \A i \in 1..Len(map) :
              map[i].k # key =>
                /\ MapGet(r.s.map, map[i].k) = map[i].e
                /\ r.s.ent[map[i].e].value = ent[map[i].e].value
                /\ r.s.ent[map[i].e].expiresAt = ent[map[i].e].expiresAt
                /\ r.s.ent[map[i].e].staleUntil = ent[map[i].e].staleUntil
         /\ r.s.evicts = <<<<key, ent[MapGet(map, key)].value, "manual">>>>
    /\ r.s.stats = stats /\ r.s.inflight = inflight
    /\ r.s.loaders = loaders /\ r.s.calls = calls

\* Three resident entries, the one in the middle of the list expired:
\* delete of its key returns true and leaves the two others in order.
C23_Witness ==
  \E key \in CacheKeys :
    LET entry == MapGet(map, key) IN
    /\ Len(map) = 3 /\ entry # 0 /\ entry # head /\ entry # tail
    /\ isExpired(ent[entry], now)
    /\ delete(Store, key).out
    /\ Len(Order(delete(Store, key).s)) = 2

\* C24: after clear the map and the list are both empty: size is 0, get (and
\* peek, has) of every key that was resident finds nothing, and onEvict was
\* invoked with reason clear once for each entry that was resident.
C24_ClearEmptiesStore ==
  LET t == clear(Store) IN
  /\ t.map = <<>> /\ size(t) = 0
  /\ t.head = 0 /\ t.tail = 0
  /\ Forward(t) = <<>> /\ Backward(t) = <<>>
  /\ Len(t.evicts) = Len(map)
  /\ \A i \in 1..Len(map) :
       /\ t.evicts[i] = <<map[i].k, ent[map[i].e].value, "clear">>
       /\ get(t, map[i].k).out = 0
       /\ peek(t, map[i].k).out = 0
       /\ ~has(t, map[i].k).out
       /\ get(t, map[i].k).s.evicts = t.evicts
  /\ \A i, j \in 1..Len(t.evicts) : t.evicts[i][1] = t.evicts[j][1] => i = j
  /\ iterator(t).out = <<>>
  /\ t.inflight = inflight /\ t.loaders = loaders /\ t.calls = calls

\* Three resident entries, of which one is fresh and one has expired, are
\* cleared at once.
C24_Witness ==
  /\ Len(map) = 3
  /\ \E i, j \in 1..Len(map) :
       isFresh(ent[map[i].e], now) /\ isExpired(ent[map[j].e], now)
  /\ Len(clear(Store).evicts) = 3
  /\ clear(Store).head = 0 /\ head # 0

\* The keys of q whose entry has not expired, and those whose entry has.
Unexpired(q) ==
  LET keep(k) == ~isExpired(ent[MapGet(map, k)], now) IN SelectSeq(q, keep)

Expired(q) ==
  LET gone(k) == isExpired(ent[MapGet(map, k)], now) IN SelectSeq(q, gone)

\* C25: prune removes every entry that is expired at the time of the call,
\* each with reason expired, and nothing else: every fresh and every stale
\* entry stays resident with its value, its timestamps and its place in the
\* recency order relative to the others.
C25_PruneRemovesExpiredOnly ==
  LET t == prune(Store) IN
  /\ KeySeq(t.map) = Unexpired(KeySeq(map))
  /\ Order(t) = Unexpired(Order(Store))
  /\ Backward(t) = Reverse(Forward(t))
  /\ t.evicts = Reports(Expired(KeySeq(map)), "expired")
  /\ \A i \in 1..Len(map) :
       LET e == ent[map[i].e] IN
       IF now >= e.staleUntil
       THEN ~MapHas(t.map, map[i].k)
       ELSE /\ MapGet(t.map, map[i].k) = map[i].e
            /\ t.ent[map[i].e].value = e.value
            /\ t.ent[map[i].e].expiresAt = e.expiresAt
            /\ t.ent[map[i].e].staleUntil = e.staleUntil
  /\ size(t) = size(Store) - Len(t.evicts)
  /\ prune(t).map = t.map /\ prune(t).evicts = t.evicts

\* A fresh, a stale and an expired entry, the expired one between the two
\* others in the list: prune removes it alone.
C25_Witness ==
  \E k1, k2, k3 \in MapKeys(map) :
    /\ isFresh(ent[MapGet(map, k1)], now)
    /\ isStale(ent[MapGet(map, k2)], now)
    /\ isExpired(ent[MapGet(map, k3)], now)
    /\ MapGet(map, k3) # head /\ MapGet(map, k3) # tail
    /\ MapKeys(prune(Store).map) = {k1, k2}
    /\ prune(Store).evicts = <<<<k3, k3, "expired">>>>

\* C26: expiry is reclaimed lazily.  Time passing changes nothing in the
\* store, so an entry that has expired stays resident and counted in size;
\* reads of other keys leave it there; get, peek, has or getOrSet on its
\* key, prune and an iteration remove it with reason expired, and size
\* decreases.
C26_LazyExpiry ==
  /\ [][now' # now =>
          UNCHANGED <<ent, map, head, tail, stats, inflight, loaders, calls>>]_vars
  /\ [](\A i \in 1..Len(map) :
         LET e == ent[map[i].e]
             key == map[i].k
             found == <<<<key, e.value, "expired">>>>
         IN
         now >= e.staleUntil =>
           /\ size(Store) >= 1
           /\ LET r == get(Store, key).s IN
              ~MapHas(r.map, key) /\ r.evicts = found /\ size(r) = size(Store) - 1
           /\ LET r == peek(Store, key).s IN
              ~MapHas(r.map, key) /\ r.evicts = found /\ size(r) = size(Store) - 1
           /\ LET r == has(Store, key).s IN
              ~MapHas(r.map, key) /\ r.evicts = found /\ size(r) = size(Store) - 1
           /\ \A o \in GetOrSetOpts, dedupe \in BOOLEAN, signal \in LiveSignals :
                LET r == getOrSet(Store, key, o.ttlMs, o.swrMs, dedupe, signal).s IN
                ~MapHas(r.map, key) /\ r.evicts = found /\ size(r) = size(Store) - 1
           /\ LET r == prune(Store) IN
              /\ ~MapHas(r.map, key) /\ size(r) < size(Store)
              /\ \E j \in 1..Len(r.evicts) : r.evicts[j] = found[1]
           /\ LET r == iterator(Store).s IN
              /\ ~MapHas(r.map, key) /\ size(r) < size(Store)
              /\ \E j \in 1..Len(r.evicts) : r.evicts[j] = found[1]
           /\ \A other \in CacheKeys \ {key} :
                /\ MapGet(get(Store, other).s.map, key) = map[i].e
                /\ MapGet(peek(Store, other).s.map, key) = map[i].e
                /\ MapGet(has(Store, other).s.map, key) = map[i].e
                /\ \A o \in GetOrSetOpts, dedupe \in BOOLEAN, signal \in Signals :
                     MapGet(getOrSet(Store, other, o.ttlMs, o.swrMs, dedupe,
                                     signal).s.map, key) = map[i].e)

\* An entry that expired when time passed is still resident next to a fresh
\* entry that a get has read since.
C26_Witness ==
  \E k1, k2 \in MapKeys(map) :
    /\ now >= 1 /\ stats.evictions = 0 /\ stats.hits = 1
    /\ isExpired(ent[MapGet(map, k1)], now)
    /\ ent[MapGet(map, k1)].staleUntil >= 1
    /\ isFresh(ent[MapGet(map, k2)], now)
    /\ head = MapGet(map, k2)
    /\ size(Store) >= 2
    /\ ~MapHas(has(Store, k1).s.map, k1)

\* C27: provided every loader execution that was started settles in the end,
\* every awaiting getOrSet call settles in the end and every key's `inflight`
\* entry is removed in the end; and at no time does `inflight` hold a promise
\* whose execution has settled, be it a foreground load or a background
\* refresh, a success or a failure.
C27_InflightEventuallyEmpty ==
  /\ [](\A key \in Keys :
          inflight[key] # 0 =>
            /\ Running(inflight[key])
            /\ loaders[inflight[key]].key = key
            /\ loaders[inflight[key]].reg)
  /\ [](\A c \in Pending : Running(c.ldr))
  /\ \A l \in LoaderIds :
       (\E c \in Pending : c.ldr = l) ~> ~(\E c \in Pending : c.ldr = l)
  /\ \A key \in Keys : (inflight[key] # 0) ~> (inflight[key] = 0)

\* A background refresh has just failed: its error went to the `.catch` of
\* refreshInBackground, `inflight` is empty again and no call is waiting.
C27_Witness ==
  /\ \E o \in settled : o.who = "refresh" /\ o.how = "rejected" /\ o.bg
  /\ \A key \in Keys : inflight[key] = 0
  /\ Pending = {}
  /\ \A l \in LoaderIds : ~Running(l)
  /\ stats.stale = 1 /\ stats.loads = 1

\* Loader execution l settles in this step.
Settling(l) == loaders[l].state = "running" /\ loaders'[l].state = "free"

\* C28: stats.loads is the number of loader invocations the cache has made,
\* foreground loads and background refreshes, failed ones included: no step
\* counts an invocation when it starts, so every execution that settles, by
\* success or by failure, is counted when it does.
C28_LoadsCountsInvocations ==
  [][/\ (\E l \in LoaderIds : Settling(l)) => stats'.loads = stats.loads + 1
     /\ (\A l \in LoaderIds : ~Settling(l)) => stats'.loads = stats.loads]_vars

\* The three read counters of store s.
Reads(s) == <<s.stats.hits, s.stats.misses, s.stats.stale>>

\* C29: a get call adds one to exactly one of hits and misses: to hits for a
\* fresh entry, to misses for a stale, an expired or an absent one.  A
\* getOrSet call whose token is not already cancelled adds one to exactly one
\* of hits, stale and misses, a call that attaches to the in-flight promise
\* adding to misses; a call with a cancelled token and every other operation
\* add to none.  So hits + misses + stale is the number of those calls.
C29_ReadsCountedOnce ==
  /\ \A key \in CacheKeys :
       LET entry == MapGet(map, key)
           fresh == entry # 0 /\ now < ent[entry].expiresAt
           stale == entry # 0 /\ ent[entry].expiresAt <= now
                              /\ now < ent[entry].staleUntil
       IN
       /\ Reads(get(Store, key).s) =
            IF fresh THEN <<stats.hits + 1, stats.misses, stats.stale>>
            ELSE <<stats.hits, stats.misses + 1, stats.stale>>
       /\ \A o \in GetOrSetOpts, dedupe \in BOOLEAN :
            /\ \A signal \in LiveSignals :
                 LET r == getOrSet(Store, key, o.ttlMs, o.swrMs, dedupe, signal) IN
                 /\ Reads(r.s) =
                      IF fresh THEN <<stats.hits + 1, stats.misses, stats.stale>>
                      ELSE IF stale
                      THEN <<stats.hits, stats.misses, stats.stale + 1>>
                      ELSE <<stats.hits, stats.misses + 1, stats.stale>>
                 /\ r.path = "attach" => Reads(r.s)[2] = stats.misses + 1
                 /\ (~fresh /\ ~stale /\ dedupe /\ inflight[key] # 0)
                      => r.path = "attach"
            /\ Reads(getOrSet(Store, key, o.ttlMs, o.swrMs, dedupe, "aborted").s)
                 = Reads(Store)
       /\ Reads(peek(Store, key).s) = Reads(Store)
       /\ Reads(has(Store, key).s) = Reads(Store)
       /\ Reads(delete(Store, key).s) = Reads(Store)
  /\ \A t \in Insertions \cup {clear(Store), prune(Store), iterator(Store).s} :
       Reads(t) = Reads(Store)
  /\ \A l \in LoaderIds : Running(l) => Reads(reject(Store, l)) = Reads(Store)
  /\ \A c \in Pending : Reads(abort(Store, c)) = Reads(Store)

\* After one hit and one miss, a deduplicating call on a key without entry
\* finds the in-flight promise: it attaches, and is counted as a miss.
C29_Witness ==
  \E key \in CacheKeys :
    /\ stats.hits = 1 /\ stats.misses = 1 /\ stats.stale = 0
    /\ ~MapHas(map, key) /\ inflight[key] # 0
    /\ LET r == getOrSet(Store, key, 1, 1, TRUE, "none") IN
       r.path = "attach" /\ Reads(r.s) = <<1, 2, 0>>

\* Whether the map and the list of store s hold the same entries.
Corresponds(s) ==
  LET fwd == Forward(s) IN
  /\ \A i, j \in 1..Len(fwd) : fwd[i] = fwd[j] => i = j
  /\ {fwd[i] : i \in 1..Len(fwd)} = {s.map[i].e : i \in 1..Len(s.map)}
  /\ \A i \in 1..Len(fwd) : MapGet(s.map, s.ent[fwd[i]].key) = fwd[i]
  /\ Backward(s) = Reverse(fwd)
  /\ size(s) = Len(fwd)

\* C30: the removals at the end of an iteration take only entries that are
\* resident and expired at that moment.  When, while the iteration is
\* suspended at a yield, a key it has already found expired is rewritten by
\* set or removed by delete, the completed iteration has not removed the
\* rewritten entry nor any entry that is not expired, has reported no entry
\* twice, and the map and the list still correspond.
C30_SuspendedIterationReclaims ==
  \A g \in Suspended(Store, Generator(0, <<>>)) :
    \A n \in 1..Len(g.expired) :
      LET key == ent[g.expired[n]].key
          d == finish(delete(Store, key).s, g)
      IN
      /\ \A value \in Values, ttlMs \in TtlOpts :
           LET t == finish(set(Store, key, value, ttlMs), g) IN
           /\ MapHas(t.map, key)
           /\ t.ent[MapGet(t.map, key)].value = value
           /\ KeySeq(t.map) = SelectSeq(KeySeq(map),
                LAMBDA k : k = key \/ ~isExpired(ent[MapGet(map, k)], now))
           /\ Corresponds(t)
      /\ KeySeq(d.map) = Unexpired(KeySeq(map))
      /\ d.evicts = <<<<key, ent[g.expired[n]].value, "manual">>>>
                      \o Reports(Without(Expired(KeySeq(map)), key), "expired")
      /\ Corresponds(d)

\* Whether store t holds, as its most recently used entry, what loader
\* execution l writes when it succeeds with `value` now.
Written(t, l, value) ==
  LET key == loaders[l].key
      entry == MapGet(t.map, key)
  IN /\ entry # 0 /\ t.head = entry
     /\ t.ent[entry].value = value
     /\ t.ent[entry].expiresAt =
          now + (IF loaders[l].ttlMs = Undefined THEN defaultTtlMs
                 ELSE loaders[l].ttlMs)
     /\ t.ent[entry].staleUntil = t.ent[entry].expiresAt +
          (IF loaders[l].swrMs = Undefined THEN 0 ELSE loaders[l].swrMs)
     /\ maxSize # Undefined => size(t) <= maxSize
     /\ Corresponds(t)

\* Whether operation result t left the executions, `inflight` and the
\* awaiting calls as they are.
KeepsPending(t) ==
  t.loaders = loaders /\ t.inflight = inflight /\ t.calls = calls

\* C31: a loader execution that succeeds writes its value for its key,
\* whatever happened to the key while it ran.  delete and clear neither
\* cancel nor unregister the execution, and its completion after them creates
\* the entry anew within the capacity bound; its completion after a set of
\* the key replaces the value that was set and computes the window anew.
C31_LoaderAlwaysWrites ==
  \A l \in LoaderIds, value \in Values :
    Running(l) =>
      LET key == loaders[l].key
          d == delete(Store, key).s
          c == clear(Store)
      IN
      /\ Written(resolve(Store, l, value), l, value)
      /\ KeepsPending(d) /\ ~MapHas(d.map, key)
      /\ Written(resolve(d, l, value), l, value)
      /\ Order(resolve(d, l, value)) = Kept(<<key>> \o Order(d))
      /\ KeepsPending(c) /\ c.map = <<>>
      /\ Written(resolve(c, l, value), l, value)
      /\ KeySeq(resolve(c, l, value).map) = <<key>>
      /\ \A v \in Values, ttlMs \in TtlOpts :
           LET u == set(Store, key, v, ttlMs) IN
           /\ KeepsPending(u)
           /\ u.ent[MapGet(u.map, key)].value = v
           /\ Written(resolve(u, l, value), l, value)
           /\ size(resolve(u, l, value)) = size(u)

\* A foreground execution is running for a key that was set in the meantime,
\* in a full cache: its success replaces the value, and its success after a
\* delete or a clear creates the entry again.
C31_Witness ==
  \E l \in LoaderIds :
    LET key == loaders[l].key
        entry == MapGet(map, key)
    IN /\ Running(l) /\ ~loaders[l].bg
       /\ maxSize = 2 /\ size(Store) = 2
       /\ entry # 0 /\ ent[entry].staleUntil = ent[entry].expiresAt
       /\ head # entry
       /\ resolve(Store, l, 2).ent[entry].value = 2 /\ ent[entry].value # 2
       /\ resolve(Store, l, 2).ent[entry].staleUntil > ent[entry].staleUntil
       /\ MapHas(resolve(delete(Store, key).s, l, 2).map, key)
       /\ MapHas(resolve(clear(Store), l, 2).map, key)

=============================================================================
